---- MODULE Spec2Model ----
(***************************************************************************)
(* State machine of the AutoDocify client page (AutoDocifyClientPage in    *)
(* src/app/subscription/page.tsx), its server actions (lib/actions) and    *)
(* the generation / regeneration flows behind them.                        *)
(*                                                                         *)
(* Strings of the program are TLA+ strings.  The DocumentSet `docs` is a   *)
(* function from section keys to strings; JavaScript null is the function  *)
(* with the empty domain.  A server call in flight is an entry of one of   *)
(* the sequences generationCalls / regenerationCalls / exportCalls, which  *)
(* holds what the closure of the call captured when it was issued.         *)
(***************************************************************************)
EXTENDS Integers, Sequences, FiniteSets, TLC

VARIABLES
    docs,                           \* useState<GenerateDocumentationOutput | null>
    originalCodebaseInputForRegen,  \* useState<string>("")
    originalUiOnlyModeForRegen,     \* useState<boolean>(false)
    currentUiOnlyMode,              \* useState(false)
    editingSection,                 \* section key or NoSection (null)
    editText,                       \* useState<string>("")
    showRegenerateDialog,           \* useState(false)
    sectionToRegenerate,            \* section key or NoSection (null)
    fileReads,                      \* onSubmit invocations suspended in readFileAsDataURL
    generationCalls,                \* handleGenerateDocs calls in flight
    regenerationCalls,              \* handleRegenerateSection calls in flight
    exportCalls,                    \* handleExportToGitBook calls in flight
    formErrors,                     \* form.formState.errors: the fields with an issue
    flow,                           \* per invocation: the flow that is running, or "idle"
    flowInput,                      \* per invocation: the argument (and environment)
    sectionIndex,                   \* remote push: position of the for loop in sectionsToExport
    exportDetails,                  \* remote push: const exportDetails = []
    allSuccessful,                  \* remote push: let allSuccessful = true
    fetchCalls,                     \* remote push: the fetch calls made so far
    zip,                            \* archive export: the JSZip object, file name -> content
    promptCalls,                    \* generation, regeneration: the inputs the prompt was called with
    flowResult                      \* per invocation: what it returned (Null while it runs)

\* The state of the server flows, which the page does not share.
flowVars == << flow, flowInput, sectionIndex, exportDetails, allSuccessful,
               fetchCalls, zip, promptCalls, flowResult >>

\* The state of the page apart from the errors of the form.
pageVars == << docs, originalCodebaseInputForRegen, originalUiOnlyModeForRegen,
               currentUiOnlyMode, editingSection, editText, showRegenerateDialog,
               sectionToRegenerate, fileReads, generationCalls, regenerationCalls,
               exportCalls >>

vars == << pageVars, formErrors, flowVars >>

----------------------------------------------------------------------------
(* Bounds *)

\* most full-generation submissions that are past validation and not yet answered
MaxSubmissions == 2

\* most sections of one DocumentSet the user replaces by edits and regenerations
MaxModifiedSections == 1

\* most invocations of server flows and server actions that run beside each other
MaxInvocations == 2

----------------------------------------------------------------------------
(* Constants of the program *)

Sections == {"readme", "apiDocs", "userManual", "faq"}

NoSection == "null"

Null == << >>

Tones == {"developer-friendly", "business-friendly", "concise", "detailed",
          "formal", "informal"}

\* The sections the user edits or regenerates in the explored runs; the
\* other sections are read and written only as parts of the DocumentSet.
SectionChoices == {"readme", "faq"}

\* The tones the user picks in the explored runs.
ToneChoices == {"concise"}

MinSnippetLength == 50

GitHubPrefix == "https://github.com/"

ZipTypes == {"application/zip", "application/x-zip-compressed"}

NoFile == [present |-> FALSE, type |-> "", dataUrl |-> ""]

----------------------------------------------------------------------------
(* String helpers: String.prototype.startsWith and String.prototype.trim *)

startsWith(s, p) == Len(s) >= Len(p) /\ SubSeq(s, 1, Len(p)) = p

\* The WhiteSpace and LineTerminator code points that String.prototype.trim
\* strips, as far as a string of this module can hold them: space, \t, \n, \r,
\* \f, and (written as the characters themselves) U+000B, U+00A0, U+1680 and
\* U+FEFF.
IsSpace(c) ==
    c \in {" ", "\t", "\n", "\r", "\f", "", " ", " ", "﻿"}

RECURSIVE trimStart(_)
trimStart(s) ==
    IF Len(s) = 0 THEN s
    ELSE IF IsSpace(SubSeq(s, 1, 1)) THEN trimStart(SubSeq(s, 2, Len(s)))
    ELSE s

RECURSIVE trimEnd(_)
trimEnd(s) ==
    IF Len(s) = 0 THEN s
    ELSE IF IsSpace(SubSeq(s, Len(s), Len(s))) THEN trimEnd(SubSeq(s, 1, Len(s) - 1))
    ELSE s

trim(s) == trimEnd(trimStart(s))

RECURSIVE Repeat(_, _)
Repeat(c, n) == IF n = 0 THEN "" ELSE c \o Repeat(c, n - 1)

----------------------------------------------------------------------------
(* Inputs of the user and outcomes of the external collaborators *)

ZipFile == [present |-> TRUE, type |-> "application/zip",
            dataUrl |-> "data:application/zip;base64,UEsDBA=="]

TextFile == [present |-> TRUE, type |-> "text/plain",
             dataUrl |-> "data:text/plain;base64,eA=="]

\* The submissions tried on the page: an uploaded archive, a UI description
\* (with the fields of the other channels populated as well), and a URL and a
\* pasted text that formSchema rejects.  FormInputs below has the rejected
\* values of the other fields.
FormValuesSet ==
    { [inputMethod |-> "url", codebaseInput |-> "http://example.com/repo",
       codebaseFile |-> NoFile, uiOnlyMode |-> FALSE, uiDescription |-> ""],
      [inputMethod |-> "text", codebaseInput |-> "short",
       codebaseFile |-> NoFile, uiOnlyMode |-> FALSE, uiDescription |-> ""],
      [inputMethod |-> "file", codebaseInput |-> "",
       codebaseFile |-> ZipFile, uiOnlyMode |-> FALSE, uiDescription |-> ""],
      [inputMethod |-> "url", codebaseInput |-> GitHubPrefix \o "user/repo",
       codebaseFile |-> ZipFile, uiOnlyMode |-> TRUE,
       uiDescription |-> "A dashboard with a login screen"] }

\* The text of a pasted snippet of n characters.
Snippet(n) == Repeat("x", n)

\* The fields of the channels a UI-mode submission does not read, populated
\* in several ways.
OtherChannels ==
    { [inputMethod |-> "url", codebaseInput |-> GitHubPrefix \o "user/repo",
       codebaseFile |-> NoFile],
      [inputMethod |-> "text", codebaseInput |-> "short", codebaseFile |-> NoFile],
      [inputMethod |-> "file", codebaseInput |-> "", codebaseFile |-> ZipFile],
      [inputMethod |-> "file", codebaseInput |-> "", codebaseFile |-> TextFile] }

\* The submissions of the form on its own: pasted texts around the minimum
\* length (also padded with white space), URLs, uploads, and UI descriptions
\* combined with every population of the other channels.
FormInputs ==
    { [inputMethod |-> "text", codebaseInput |-> t, codebaseFile |-> NoFile,
       uiOnlyMode |-> FALSE, uiDescription |-> ""] :
          t \in { "", "short", Snippet(MinSnippetLength - 1), Snippet(MinSnippetLength),
                  Snippet(MinSnippetLength + 10),
                  Snippet(MinSnippetLength - 1) \o " ",
                  Snippet(MinSnippetLength - 1) \o "\r",
                  " " \o Snippet(MinSnippetLength) } }
    \cup
    { [inputMethod |-> "url", codebaseInput |-> u, codebaseFile |-> NoFile,
       uiOnlyMode |-> FALSE, uiDescription |-> "ignored"] :
          u \in { "", "http://example.com/repo", GitHubPrefix \o "user/repo" } }
    \cup
    { [inputMethod |-> "file", codebaseInput |-> "", codebaseFile |-> f,
       uiOnlyMode |-> FALSE, uiDescription |-> ""] :
          f \in { NoFile, TextFile, ZipFile } }
    \cup
    { [inputMethod |-> o.inputMethod, codebaseInput |-> o.codebaseInput,
       codebaseFile |-> o.codebaseFile, uiOnlyMode |-> TRUE, uiDescription |-> u] :
          o \in OtherChannels,
          u \in { "", "  ", "\r", "\f ", "A dashboard with a login screen" } }

\* What the user types into the edit area in the explored runs (a section
\* becomes empty through a regeneration that answers the empty string).
EditTexts == {"edited by user"}

CustomPrompts == {"", "Focus on the installation steps"}

\* A JSON value of a model response: its type and, for a string, its text.
Str(v) == [t |-> "string", v |-> v]

Num(v) == [t |-> "number", v |-> v]

GenTags == {"gen1", "gen2"}

GenRaw(tag) == [s \in Sections |-> Str(tag \o ":" \o s)]

\* What the model may answer to the generation prompt: two complete answers,
\* one without the faq key, one with a number for apiDocs, and no output at
\* all (null).
GenerationRawOutputs ==
    { GenRaw("gen1"), GenRaw("gen2"),
      [s \in Sections \ {"faq"} |-> Str("gen1:" \o s)],
      [GenRaw("gen1") EXCEPT !["apiDocs"] = Num("7")],
      Null }

RegenerationRawOutputs ==
    { [regeneratedContent |-> Str("regen1")],
      [regeneratedContent |-> Str("")],
      [regeneratedContent |-> Num("7")],
      Null }

\* The prompt call either throws (provider error) or resolves with an output.
Outcomes(raws) ==
    { [threw |-> TRUE, message |-> m, output |-> Null] : m \in {"", "quota exceeded"} }
        \cup { [threw |-> FALSE, message |-> "", output |-> r] : r \in raws }

----------------------------------------------------------------------------
(* formSchema and regenerationSchema *)

\* Mutant: in UI-only mode the fields of the selected input method are
\* checked as well.
formSchema_SourceCheckedInUiMode(data) ==
    (IF data.uiOnlyMode /\ trim(data.uiDescription) = "" THEN {"uiDescription"} ELSE {})
    \cup
    (IF data.inputMethod = "url"
        /\ (data.codebaseInput = "" \/ ~startsWith(data.codebaseInput, GitHubPrefix))
     THEN {"codebaseInput"} ELSE {})
    \cup
    (IF data.inputMethod = "file" /\ ~data.codebaseFile.present
     THEN {"codebaseFile"} ELSE {})
    \cup
    (IF data.inputMethod = "file" /\ data.codebaseFile.present
        /\ data.codebaseFile.type \notin ZipTypes
     THEN {"codebaseFile"} ELSE {})
    \cup
    (IF data.inputMethod = "text"
        /\ (data.codebaseInput = "" \/ Len(trim(data.codebaseInput)) < MinSnippetLength)
     THEN {"codebaseInput"} ELSE {})

\* Mutant: an uploaded text file is accepted like an archive.
formSchema_AnyFileType(data) ==
    IF data.uiOnlyMode
    THEN IF trim(data.uiDescription) = "" THEN {"uiDescription"} ELSE {}
    ELSE (IF data.inputMethod = "url"
             /\ (data.codebaseInput = "" \/ ~startsWith(data.codebaseInput, GitHubPrefix))
          THEN {"codebaseInput"} ELSE {})
         \cup
         (IF data.inputMethod = "file" /\ ~data.codebaseFile.present
          THEN {"codebaseFile"} ELSE {})
         \cup
         (IF data.inputMethod = "file" /\ data.codebaseFile.present
             /\ data.codebaseFile.type \notin (ZipTypes \cup {"text/plain"})
          THEN {"codebaseFile"} ELSE {})
         \cup
         (IF data.inputMethod = "text"
             /\ (data.codebaseInput = "" \/ Len(trim(data.codebaseInput)) < MinSnippetLength)
          THEN {"codebaseInput"} ELSE {})

\* Mutant: a snippet of exactly the minimum length is rejected.
formSchema_MinLengthOffByOne(data) ==
    IF data.uiOnlyMode
    THEN IF trim(data.uiDescription) = "" THEN {"uiDescription"} ELSE {}
    ELSE (IF data.inputMethod = "url"
             /\ (data.codebaseInput = "" \/ ~startsWith(data.codebaseInput, GitHubPrefix))
          THEN {"codebaseInput"} ELSE {})
         \cup
         (IF data.inputMethod = "file" /\ ~data.codebaseFile.present
          THEN {"codebaseFile"} ELSE {})
         \cup
         (IF data.inputMethod = "file" /\ data.codebaseFile.present
             /\ data.codebaseFile.type \notin ZipTypes
          THEN {"codebaseFile"} ELSE {})
         \cup
         (IF data.inputMethod = "text"
             /\ (data.codebaseInput = "" \/ Len(trim(data.codebaseInput)) <= MinSnippetLength)
          THEN {"codebaseInput"} ELSE {})

\* The paths of the issues superRefine adds for the submitted values.
formSchema(data) ==
    IF data.uiOnlyMode
    THEN IF trim(data.uiDescription) = "" THEN {"uiDescription"} ELSE {}
    ELSE (IF data.inputMethod = "url"
             /\ (data.codebaseInput = "" \/ ~startsWith(data.codebaseInput, GitHubPrefix))
          THEN {"codebaseInput"} ELSE {})
         \cup
         (IF data.inputMethod = "file" /\ ~data.codebaseFile.present
          THEN {"codebaseFile"} ELSE {})
         \cup
         (IF data.inputMethod = "file" /\ data.codebaseFile.present
             /\ data.codebaseFile.type \notin ZipTypes
          THEN {"codebaseFile"} ELSE {})
         \cup
         (IF data.inputMethod = "text"
             /\ (data.codebaseInput = "" \/ Len(trim(data.codebaseInput)) < MinSnippetLength)
          THEN {"codebaseInput"} ELSE {})

\* tone: z.string().min(1); customPrompt: optional string.
regenerationSchema(regenValues) ==
    IF Len(regenValues.tone) < 1 THEN {"tone"} ELSE {}

----------------------------------------------------------------------------
(* Server side: the flows and the server actions *)

\* GenerateDocumentationOutputSchema: an object with the four string fields
\* (z.object ignores keys it does not know).
GenerateDocumentationOutputSchema(raw) ==
    /\ Sections \subseteq DOMAIN raw
    /\ \A s \in Sections : raw[s].t = "string"

RegenerateDocumentationSectionOutputSchema(raw) ==
    /\ {"regeneratedContent"} \subseteq DOMAIN raw
    /\ raw["regeneratedContent"].t = "string"

SchemaErrorMessage == "Schema validation failed"

\* Mutant: the flow is defined without outputSchema and returns the output of
\* the model as it is.
generateDocumentationFlow_Unchecked(outcome) ==
    IF outcome.threw
    THEN [threw |-> TRUE, message |-> outcome.message, value |-> Null]
    ELSE [threw |-> FALSE, message |-> "",
          value |-> [s \in DOMAIN outcome.output |-> outcome.output[s].v]]

\* generateDocumentationFlow: `return output!`, checked against outputSchema.
generateDocumentationFlow(outcome) ==
    IF outcome.threw
    THEN [threw |-> TRUE, message |-> outcome.message, value |-> Null]
    ELSE IF GenerateDocumentationOutputSchema(outcome.output)
         THEN [threw |-> FALSE, message |-> "",
               value |-> [s \in Sections |-> outcome.output[s].v]]
         ELSE [threw |-> TRUE, message |-> SchemaErrorMessage, value |-> Null]

\* Mutant: the flow is defined without outputSchema and returns the output of
\* the model as it is.
regenerateDocumentationSectionFlow_Unchecked(outcome) ==
    IF outcome.threw
    THEN [threw |-> TRUE, message |-> outcome.message, value |-> Null]
    ELSE [threw |-> FALSE, message |-> "",
          value |-> [k \in DOMAIN outcome.output |-> outcome.output[k].v]]

\* regenerateDocumentationSectionFlow: `return output!`, checked against outputSchema.
regenerateDocumentationSectionFlow(outcome) ==
    IF outcome.threw
    THEN [threw |-> TRUE, message |-> outcome.message, value |-> Null]
    ELSE IF RegenerateDocumentationSectionOutputSchema(outcome.output)
         THEN [threw |-> FALSE, message |-> "",
               value |-> [regeneratedContent |-> outcome.output["regeneratedContent"].v]]
         ELSE [threw |-> TRUE, message |-> SchemaErrorMessage, value |-> Null]

\* ActionResult: error "" stands for an absent error, data Null for absent data.
handleGenerateDocs(outcome) ==
    LET result == generateDocumentationFlow(outcome) IN
    IF result.threw
    THEN [error |-> IF result.message # "" THEN result.message
                    ELSE "Failed to generate documentation.",
          data |-> Null]
    ELSE [error |-> "", data |-> result.value]

handleRegenerateSection(outcome) ==
    LET result == regenerateDocumentationSectionFlow(outcome) IN
    IF result.threw
    THEN [error |-> IF result.message # "" THEN result.message
                    ELSE "Failed to regenerate section.",
          data |-> Null]
    ELSE [error |-> "", data |-> result.value]

\* Mutant: the mode of the session is passed on with the request.
RegenerationRequest_WithMode(codebase, sectionName, tone, uiOnlyMode) ==
    [codebase |-> codebase, sectionName |-> sectionName, tone |-> tone,
     uiOnlyMode |-> uiOnlyMode]

\* The request handleRegenerateSection passes to the flow: uiOnlyMode is dropped.
RegenerationRequest(codebase, sectionName, tone, uiOnlyMode) ==
    [codebase |-> codebase, sectionName |-> sectionName, tone |-> tone]

----------------------------------------------------------------------------
(* Client state derived by the render *)

\* useTransition: the pending flag is set while an action of it is running.
isGenerating == Len(generationCalls) > 0

isRegenerating == Len(regenerationCalls) > 0

isExporting == Len(exportCalls) > 0

\* The card with the tabs, the edit area and the export buttons is rendered.
DocsCardVisible == docs # Null /\ ~isGenerating

\* The regenerate dialog is modal: while it is open only its own controls
\* can be reached.
PageReachable == ~showRegenerateDialog

\* <Button type="submit" disabled={isGenerating || isRegenerating || isExporting}>
GenerateButtonEnabled == ~(isGenerating \/ isRegenerating \/ isExporting)

\* The sections of a DocumentSet that do not hold the text of a generation.
ModifiedSections(d) ==
    IF d = Null THEN {}
    ELSE {s \in Sections : d[s] \notin {GenRaw(tag)[s].v : tag \in GenTags}}

WithinModificationBound(d) == Cardinality(ModifiedSections(d)) <= MaxModifiedSections

Remove(seq, i) == SubSeq(seq, 1, i - 1) \o SubSeq(seq, i + 1, Len(seq))

----------------------------------------------------------------------------
(* Initial state: the values of the useState calls *)

Init ==
    /\ docs = Null
    /\ originalCodebaseInputForRegen = ""
    /\ originalUiOnlyModeForRegen = FALSE
    /\ currentUiOnlyMode = FALSE
    /\ editingSection = NoSection
    /\ editText = ""
    /\ showRegenerateDialog = FALSE
    /\ sectionToRegenerate = NoSection
    /\ fileReads = << >>
    /\ generationCalls = << >>
    /\ regenerationCalls = << >>
    /\ exportCalls = << >>
    /\ formErrors = {}
    /\ flow = [i \in 1..MaxInvocations |-> "idle"]
    /\ flowInput = [i \in 1..MaxInvocations |-> Null]
    /\ sectionIndex = [i \in 1..MaxInvocations |-> 0]
    /\ exportDetails = [i \in 1..MaxInvocations |-> << >>]
    /\ allSuccessful = [i \in 1..MaxInvocations |-> TRUE]
    /\ fetchCalls = [i \in 1..MaxInvocations |-> << >>]
    /\ zip = [i \in 1..MaxInvocations |-> {}]
    /\ promptCalls = [i \in 1..MaxInvocations |-> << >>]
    /\ flowResult = [i \in 1..MaxInvocations |-> Null]

----------------------------------------------------------------------------
(* Full generation: form.handleSubmit(onSubmit) *)

\* onSubmit from the stores for regeneration to the issue of the call.
StartGeneration(codebaseInputValue, uiOnlyModeValue) ==
    /\ originalCodebaseInputForRegen' = codebaseInputValue
    /\ originalUiOnlyModeForRegen' = uiOnlyModeValue
    /\ docs' = Null
    /\ generationCalls' = Append(generationCalls,
                                 [codebase |-> codebaseInputValue,
                                  uiOnlyMode |-> uiOnlyModeValue])

\* form.handleSubmit calls onSubmit only for values formSchema accepts.
\* onSubmit for values that need no file read: runs to the issue of the call.
Submit(values) ==
    /\ GenerateButtonEnabled /\ PageReachable
    /\ Len(fileReads) + Len(generationCalls) < MaxSubmissions
    /\ formSchema(values) = {}
    /\ ~(~values.uiOnlyMode /\ values.inputMethod = "file" /\ values.codebaseFile.present)
    /\ currentUiOnlyMode' = values.uiOnlyMode
    /\ IF values.uiOnlyMode
       THEN IF values.uiDescription = "" \/ trim(values.uiDescription) = ""
            THEN UNCHANGED << docs, originalCodebaseInputForRegen,
                              originalUiOnlyModeForRegen, generationCalls >>
            ELSE StartGeneration(values.uiDescription, TRUE)
       ELSE IF values.codebaseInput # ""
            THEN StartGeneration(values.codebaseInput, FALSE)
            ELSE UNCHANGED << docs, originalCodebaseInputForRegen,
                              originalUiOnlyModeForRegen, generationCalls >>
    /\ UNCHANGED << editingSection, editText, showRegenerateDialog,
                    sectionToRegenerate, fileReads, regenerationCalls, exportCalls >>
    /\ formErrors' = {}
    /\ UNCHANGED flowVars

\* form.handleSubmit for values formSchema rejects: the issues become the
\* errors of the form and onSubmit is not called.
handleSubmitInvalid(values) ==
    /\ GenerateButtonEnabled /\ PageReachable
    /\ formSchema(values) # {}
    /\ formErrors' = formSchema(values)
    /\ UNCHANGED << pageVars, flowVars >>

\* onSubmit for an uploaded file: runs to `await readFileAsDataURL(...)`.
SubmitFile(values) ==
    /\ GenerateButtonEnabled /\ PageReachable
    /\ Len(fileReads) + Len(generationCalls) < MaxSubmissions
    /\ formSchema(values) = {}
    /\ ~values.uiOnlyMode /\ values.inputMethod = "file" /\ values.codebaseFile.present
    /\ currentUiOnlyMode' = values.uiOnlyMode
    /\ fileReads' = Append(fileReads, [codebaseFile |-> values.codebaseFile,
                                       uiOnlyModeValue |-> values.uiOnlyMode])
    /\ UNCHANGED << docs, originalCodebaseInputForRegen, originalUiOnlyModeForRegen,
                    editingSection, editText, showRegenerateDialog, sectionToRegenerate,
                    generationCalls, regenerationCalls, exportCalls >>
    /\ formErrors' = {}
    /\ UNCHANGED flowVars

\* reader.onload: onSubmit resumes after the await and issues the call.
FileReadResolve(i) ==
    /\ i \in 1..Len(fileReads)
    /\ fileReads' = Remove(fileReads, i)
    /\ StartGeneration(fileReads[i].codebaseFile.dataUrl, fileReads[i].uiOnlyModeValue)
    /\ UNCHANGED << currentUiOnlyMode, editingSection, editText, showRegenerateDialog,
                    sectionToRegenerate, regenerationCalls, exportCalls >>
    /\ UNCHANGED << formErrors, flowVars >>

\* reader.onerror: onSubmit reports the error and returns.
FileReadReject(i) ==
    /\ i \in 1..Len(fileReads)
    /\ fileReads' = Remove(fileReads, i)
    /\ UNCHANGED << docs, originalCodebaseInputForRegen, originalUiOnlyModeForRegen,
                    currentUiOnlyMode, editingSection, editText, showRegenerateDialog,
                    sectionToRegenerate, generationCalls, regenerationCalls,
                    exportCalls >>
    /\ UNCHANGED << formErrors, flowVars >>

\* Mutant: the sections of the result are stored one by one and the last two
\* are forgotten.
ApplyGenerationResult_Partial(result) ==
    IF result.error # ""
    THEN UNCHANGED docs
    ELSE IF result.data # Null
         THEN docs' = [s \in Sections |->
                          IF s \in {"readme", "apiDocs"} THEN result.data[s]
                          ELSE IF docs # Null THEN docs[s] ELSE ""]
         ELSE UNCHANGED docs

\* What the transition callback of onSubmit does with the result of the call.
ApplyGenerationResult(result) ==
    IF result.error # ""
    THEN UNCHANGED docs
    ELSE IF result.data # Null
         THEN docs' = result.data
         ELSE UNCHANGED docs

\* Mutant: the result of a call is dropped when a newer submission has
\* replaced the stored source since the call was issued.
GenerationResponse_DropsStale(i, outcome) ==
    /\ i \in 1..Len(generationCalls)
    /\ generationCalls' = Remove(generationCalls, i)
    /\ IF generationCalls[i].codebase = originalCodebaseInputForRegen
       THEN ApplyGenerationResult(handleGenerateDocs(outcome))
       ELSE UNCHANGED docs
    /\ UNCHANGED << originalCodebaseInputForRegen, originalUiOnlyModeForRegen,
                    currentUiOnlyMode, editingSection, editText, showRegenerateDialog,
                    sectionToRegenerate, fileReads, regenerationCalls, exportCalls >>
    /\ UNCHANGED << formErrors, flowVars >>

\* The i-th generation call in flight completes with the given outcome.
GenerationResponse(i, outcome) ==
    /\ i \in 1..Len(generationCalls)
    /\ generationCalls' = Remove(generationCalls, i)
    /\ ApplyGenerationResult(handleGenerateDocs(outcome))
    /\ UNCHANGED << originalCodebaseInputForRegen, originalUiOnlyModeForRegen,
                    currentUiOnlyMode, editingSection, editText, showRegenerateDialog,
                    sectionToRegenerate, fileReads, regenerationCalls, exportCalls >>
    /\ UNCHANGED << formErrors, flowVars >>

----------------------------------------------------------------------------
(* In-place edit of a section *)

\* The edit button of a section is rendered when the section is not edited.
handleEditSection(section) ==
    /\ DocsCardVisible /\ PageReachable
    /\ editingSection # section
    /\ IF docs # Null /\ docs[section] # ""
       THEN /\ editingSection' = section
            /\ editText' = docs[section]
       ELSE UNCHANGED << editingSection, editText >>
    /\ UNCHANGED << docs, originalCodebaseInputForRegen, originalUiOnlyModeForRegen,
                    currentUiOnlyMode, showRegenerateDialog, sectionToRegenerate,
                    fileReads, generationCalls, regenerationCalls, exportCalls >>
    /\ UNCHANGED << formErrors, flowVars >>

\* onChange of the edit textarea.
ChangeEditText(text) ==
    /\ DocsCardVisible /\ PageReachable
    /\ editingSection \in Sections
    /\ editText' = text
    /\ UNCHANGED << docs, originalCodebaseInputForRegen, originalUiOnlyModeForRegen,
                    currentUiOnlyMode, editingSection, showRegenerateDialog,
                    sectionToRegenerate, fileReads, generationCalls, regenerationCalls,
                    exportCalls >>
    /\ UNCHANGED << formErrors, flowVars >>

\* The Cancel button of the edit area.
CancelEdit ==
    /\ DocsCardVisible /\ PageReachable
    /\ editingSection \in Sections
    /\ editingSection' = NoSection
    /\ UNCHANGED << docs, originalCodebaseInputForRegen, originalUiOnlyModeForRegen,
                    currentUiOnlyMode, editText, showRegenerateDialog,
                    sectionToRegenerate, fileReads, generationCalls, regenerationCalls,
                    exportCalls >>
    /\ UNCHANGED << formErrors, flowVars >>

\* Mutant: saving rebuilds the DocumentSet from the edited section alone.
handleSaveEdit_ResetsOthers ==
    /\ DocsCardVisible /\ PageReachable
    /\ editingSection \in Sections
    /\ WithinModificationBound([docs EXCEPT ![editingSection] = editText])
    /\ IF docs # Null /\ editingSection # NoSection
       THEN /\ docs' = [s \in Sections |-> IF s = editingSection THEN editText ELSE ""]
            /\ editingSection' = NoSection
       ELSE UNCHANGED << docs, editingSection >>
    /\ UNCHANGED << originalCodebaseInputForRegen, originalUiOnlyModeForRegen,
                    currentUiOnlyMode, editText, showRegenerateDialog,
                    sectionToRegenerate, fileReads, generationCalls, regenerationCalls,
                    exportCalls >>
    /\ UNCHANGED << formErrors, flowVars >>

\* The Save button of the edit area.
handleSaveEdit ==
    /\ DocsCardVisible /\ PageReachable
    /\ editingSection \in Sections
    /\ WithinModificationBound([docs EXCEPT ![editingSection] = editText])
    /\ IF docs # Null /\ editingSection # NoSection
       THEN /\ docs' = [docs EXCEPT ![editingSection] = editText]
            /\ editingSection' = NoSection
       ELSE UNCHANGED << docs, editingSection >>
    /\ UNCHANGED << originalCodebaseInputForRegen, originalUiOnlyModeForRegen,
                    currentUiOnlyMode, editText, showRegenerateDialog,
                    sectionToRegenerate, fileReads, generationCalls, regenerationCalls,
                    exportCalls >>
    /\ UNCHANGED << formErrors, flowVars >>

----------------------------------------------------------------------------
(* Regeneration of one section *)

\* The regenerate button of a section, rendered when the section is not edited.
OpenRegenerateDialog(section) ==
    /\ DocsCardVisible /\ PageReachable
    /\ editingSection # section
    /\ sectionToRegenerate' = section
    /\ showRegenerateDialog' = TRUE
    /\ UNCHANGED << docs, originalCodebaseInputForRegen, originalUiOnlyModeForRegen,
                    currentUiOnlyMode, editingSection, editText, fileReads,
                    generationCalls, regenerationCalls, exportCalls >>
    /\ UNCHANGED << formErrors, flowVars >>

\* The Cancel button of the dialog, or onOpenChange(false).
CloseRegenerateDialog ==
    /\ showRegenerateDialog
    /\ showRegenerateDialog' = FALSE
    /\ UNCHANGED << docs, originalCodebaseInputForRegen, originalUiOnlyModeForRegen,
                    currentUiOnlyMode, editingSection, editText, sectionToRegenerate,
                    fileReads, generationCalls, regenerationCalls, exportCalls >>
    /\ UNCHANGED << formErrors, flowVars >>

\* Mutant: the source of the request is rebuilt from the current text of the
\* section.
onRegenerateSubmit_FromDocs(regenValues) ==
    /\ showRegenerateDialog
    /\ ~isRegenerating
    /\ regenerationSchema(regenValues) = {}
    /\ docs # Null /\ sectionToRegenerate \in Sections
           => WithinModificationBound([docs EXCEPT ![sectionToRegenerate] = ""])
    /\ IF sectionToRegenerate = NoSection \/ originalCodebaseInputForRegen = ""
       THEN UNCHANGED regenerationCalls
       ELSE regenerationCalls' =
                  Append(regenerationCalls,
                         [request |-> RegenerationRequest(
                                          IF docs # Null THEN docs[sectionToRegenerate]
                                          ELSE originalCodebaseInputForRegen,
                                          sectionToRegenerate,
                                          regenValues.tone,
                                          originalUiOnlyModeForRegen),
                          sectionToRegenerate |-> sectionToRegenerate,
                          docs |-> docs])
    /\ UNCHANGED << docs, originalCodebaseInputForRegen, originalUiOnlyModeForRegen,
                    currentUiOnlyMode, editingSection, editText, showRegenerateDialog,
                    sectionToRegenerate, fileReads, generationCalls, exportCalls >>
    /\ UNCHANGED << formErrors, flowVars >>

\* regenerationForm.handleSubmit(onRegenerateSubmit): the call captures the
\* state of the render it was submitted from, docs included.
onRegenerateSubmit(regenValues) ==
    /\ showRegenerateDialog
    /\ ~isRegenerating
    /\ regenerationSchema(regenValues) = {}
    /\ docs # Null /\ sectionToRegenerate \in Sections
           => WithinModificationBound([docs EXCEPT ![sectionToRegenerate] = ""])
    /\ IF sectionToRegenerate = NoSection \/ originalCodebaseInputForRegen = ""
       THEN UNCHANGED regenerationCalls
       ELSE regenerationCalls' =
                  Append(regenerationCalls,
                         [request |-> RegenerationRequest(originalCodebaseInputForRegen,
                                                          sectionToRegenerate,
                                                          regenValues.tone,
                                                          originalUiOnlyModeForRegen),
                          sectionToRegenerate |-> sectionToRegenerate,
                          docs |-> docs])
    /\ UNCHANGED << docs, originalCodebaseInputForRegen, originalUiOnlyModeForRegen,
                    currentUiOnlyMode, editingSection, editText, showRegenerateDialog,
                    sectionToRegenerate, fileReads, generationCalls, exportCalls >>
    /\ UNCHANGED << formErrors, flowVars >>

\* Mutant: the result replaces the DocumentSet instead of one section of it.
ApplyRegenerationResult_DropsOthers(call, result) ==
    IF result.error # ""
    THEN UNCHANGED docs
    ELSE IF result.data # Null /\ call.docs # Null
         THEN docs' = [s \in Sections |->
                          IF s = call.sectionToRegenerate
                          THEN result.data.regeneratedContent ELSE ""]
         ELSE UNCHANGED docs

\* What the transition callback of onRegenerateSubmit does with the result.
ApplyRegenerationResult(call, result) ==
    IF result.error # ""
    THEN UNCHANGED docs
    ELSE IF result.data # Null /\ call.docs # Null
         THEN docs' = [call.docs EXCEPT
                          ![call.sectionToRegenerate] = result.data.regeneratedContent]
         ELSE UNCHANGED docs

\* The i-th regeneration call in flight completes with the given outcome.
RegenerationResponse(i, outcome) ==
    /\ i \in 1..Len(regenerationCalls)
    /\ regenerationCalls' = Remove(regenerationCalls, i)
    /\ ApplyRegenerationResult(regenerationCalls[i], handleRegenerateSection(outcome))
    /\ showRegenerateDialog' = FALSE
    /\ UNCHANGED << originalCodebaseInputForRegen, originalUiOnlyModeForRegen,
                    currentUiOnlyMode, editingSection, editText, sectionToRegenerate,
                    fileReads, generationCalls, exportCalls >>
    /\ UNCHANGED << formErrors, flowVars >>

----------------------------------------------------------------------------
(* Export *)

ExportResults ==
    { [hasContent |-> TRUE,  error |-> ""],
      [hasContent |-> FALSE, error |-> "Failed to generate .zip for GitBook export."],
      [hasContent |-> FALSE, error |-> ""] }

\* The "Download GitBook .zip" button (the PDF and Notion buttons are disabled).
triggerExport ==
    /\ DocsCardVisible /\ PageReachable
    /\ ~isExporting
    /\ IF docs = Null
       THEN UNCHANGED exportCalls
       ELSE exportCalls' = Append(exportCalls, [exportType |-> "gitbook"])
    /\ UNCHANGED << docs, originalCodebaseInputForRegen, originalUiOnlyModeForRegen,
                    currentUiOnlyMode, editingSection, editText, showRegenerateDialog,
                    sectionToRegenerate, fileReads, generationCalls, regenerationCalls >>
    /\ UNCHANGED << formErrors, flowVars >>

\* The export call in flight completes.
ExportResponse(i, result) ==
    /\ i \in 1..Len(exportCalls)
    /\ exportCalls' = Remove(exportCalls, i)
    /\ UNCHANGED << docs, originalCodebaseInputForRegen, originalUiOnlyModeForRegen,
                    currentUiOnlyMode, editingSection, editText, showRegenerateDialog,
                    sectionToRegenerate, fileReads, generationCalls, regenerationCalls >>
    /\ UNCHANGED << formErrors, flowVars >>

----------------------------------------------------------------------------
(* Server flows.  Every invocation of a flow or of a server action has its  *)
(* own arguments and locals, and invocations run beside each other: the     *)
(* variables of this part are functions of the invocation.  The arguments   *)
(* of an invocation are drawn when it starts, and its result stays until    *)
(* the next invocation takes its place.                                     *)

Invocations == 1..MaxInvocations

\* process.env of the server: "" stands for a variable that is not set.
EnvChoices ==
    { [GITBOOK_API_KEY |-> k, GITBOOK_SPACE_ID |-> sp] :
          k \in {"", "gb_api_key"}, sp \in {"", "space1"} }

\* The DocumentSets handed to the export flows: every choice of the sections
\* that have content.
ExportDocsSet ==
    { [s \in Sections |-> IF s \in present THEN "# " \o s ELSE ""] :
          present \in SUBSET Sections }

\* What fetch does for one PUT: it resolves with a response (ok, status and
\* the result of response.json(): parsed or not, the message field of the
\* parsed body, and JSON.stringify of the body) or it rejects.  The body of
\* the 503 is the JSON value null.
FetchOutcomes ==
    { [threw |-> FALSE, ok |-> TRUE, status |-> 200, parsed |-> TRUE,
       message |-> "", text |-> "{}", error |-> ""],
      [threw |-> FALSE, ok |-> FALSE, status |-> 500, parsed |-> TRUE,
       message |-> "Internal Server Error",
       text |-> "{\"message\":\"Internal Server Error\"}", error |-> ""],
      [threw |-> FALSE, ok |-> FALSE, status |-> 404, parsed |-> TRUE,
       message |-> "", text |-> "{}", error |-> ""],
      [threw |-> FALSE, ok |-> FALSE, status |-> 502, parsed |-> FALSE,
       message |-> "", text |-> "", error |-> ""],
      [threw |-> FALSE, ok |-> FALSE, status |-> 503, parsed |-> TRUE,
       message |-> "", text |-> "null", error |-> ""],
      [threw |-> TRUE, ok |-> FALSE, status |-> 0, parsed |-> FALSE,
       message |-> "", text |-> "", error |-> "fetch failed"],
      [threw |-> TRUE, ok |-> FALSE, status |-> 0, parsed |-> FALSE,
       message |-> "", text |-> "", error |-> ""] }

\* What zip.generateAsync does: it resolves with the archive or it rejects.
ZipOutcomes ==
    { [threw |-> FALSE, error |-> ""],
      [threw |-> TRUE, error |-> "generateAsync failed"] }

\* The explored runs.  The first invocation takes arguments of every kind;
\* its first fetch call gets any outcome and its later ones a 200 or a 500.
\* An invocation that runs beside it takes one argument and one outcome of
\* each kind: its push has one section and the fetch answers 500.
ExportDocsOf(i) ==
    IF i = 1 THEN ExportDocsSet
    ELSE { [s \in Sections |-> IF s = "readme" THEN "# readme" ELSE ""] }

EnvChoicesOf(i) ==
    IF i = 1 THEN EnvChoices
    ELSE { [GITBOOK_API_KEY |-> "gb_api_key", GITBOOK_SPACE_ID |-> "space1"] }

FetchOutcomesOf(i) ==
    IF i = 1
    THEN IF Len(fetchCalls[i]) = 1 THEN FetchOutcomes
         ELSE {o \in FetchOutcomes : o.status \in {200, 500}}
    ELSE {o \in FetchOutcomes : o.status = 500}

ZipOutcomesOf(i) ==
    IF i = 1 THEN ZipOutcomes ELSE {o \in ZipOutcomes : ~o.threw}

UiOnlyModeArgsOf(i) == IF i = 1 THEN BOOLEAN ELSE {FALSE}

PromptOutcomesOf(i, raws) ==
    IF i = 1 THEN Outcomes(raws)
    ELSE {o \in Outcomes(raws) : o.threw /\ o.message = "quota exceeded"}

\* Mutant: the list of sections starts with the FAQ.
sectionsToExport_FaqFirst ==
    << [key |-> "faq",        title |-> "FAQ",         path |-> "faq.md"],
       [key |-> "readme",     title |-> "README",      path |-> "readme.md"],
       [key |-> "apiDocs",    title |-> "API Docs",    path |-> "api-docs.md"],
       [key |-> "userManual", title |-> "User Manual", path |-> "user-manual.md"] >>

sectionsToExport ==
    << [key |-> "readme",     title |-> "README",      path |-> "readme.md"],
       [key |-> "apiDocs",    title |-> "API Docs",    path |-> "api-docs.md"],
       [key |-> "userManual", title |-> "User Manual", path |-> "user-manual.md"],
       [key |-> "faq",        title |-> "FAQ",         path |-> "faq.md"] >>

\* encodeURIComponent on the characters of a path: letters, digits, "-", "."
\* and "_" are kept, "/" and " " are percent-encoded.
RECURSIVE encodeURIComponent(_)
encodeURIComponent(s) ==
    IF Len(s) = 0 THEN ""
    ELSE (IF SubSeq(s, 1, 1) = "/" THEN "%2F"
          ELSE IF SubSeq(s, 1, 1) = " " THEN "%20"
          ELSE SubSeq(s, 1, 1)) \o encodeURIComponent(SubSeq(s, 2, Len(s)))

gitbookApiUrl(spaceId, path) ==
    "https://api.gitbook.com/v1/spaces/" \o spaceId \o "/content/path/"
        \o encodeURIComponent(path)

\* An invocation starts in place i: the records of the invocation that was
\* there are dropped.
FlowStarts(i, input) ==
    /\ flow[i] = "idle"
    /\ flowInput' = [flowInput EXCEPT ![i] = input]
    /\ fetchCalls' = [fetchCalls EXCEPT ![i] = << >>]
    /\ zip' = [zip EXCEPT ![i] = {}]

\* The locals of the loop of the remote push do not exist.
NoPushLocals(i) ==
    /\ sectionIndex' = [sectionIndex EXCEPT ![i] = 0]
    /\ exportDetails' = [exportDetails EXCEPT ![i] = << >>]
    /\ allSuccessful' = [allSuccessful EXCEPT ![i] = TRUE]

\* Mutant: the flow does not look at the configuration before the loop.
doExportToGitBookFlowRemote_NoConfigCheck(i, docsArg, environment) ==
    /\ FlowStarts(i, [kind |-> "push", docs |-> docsArg, env |-> environment])
    /\ promptCalls' = [promptCalls EXCEPT ![i] = << >>]
    /\ flow' = [flow EXCEPT ![i] = "push"]
    /\ flowResult' = [flowResult EXCEPT ![i] = Null]
    /\ sectionIndex' = [sectionIndex EXCEPT ![i] = 1]
    /\ exportDetails' = [exportDetails EXCEPT ![i] = << >>]
    /\ allSuccessful' = [allSuccessful EXCEPT ![i] = TRUE]
    /\ UNCHANGED << pageVars, formErrors >>

\* doExportToGitBookFlow of the remote push, from its entry to the for loop.
doExportToGitBookFlowRemote(i, docsArg, environment) ==
    /\ FlowStarts(i, [kind |-> "push", docs |-> docsArg, env |-> environment])
    /\ promptCalls' = [promptCalls EXCEPT ![i] = << >>]
    /\ IF environment.GITBOOK_API_KEY = "" \/ environment.GITBOOK_SPACE_ID = ""
       THEN /\ flow' = [flow EXCEPT ![i] = "idle"]
            /\ flowResult' = [flowResult EXCEPT ![i] =
                  [success |-> FALSE,
                   message |-> "GitBook API Key or Space ID is not configured in environment variables.",
                   details |-> << >>]]
            /\ NoPushLocals(i)
       ELSE /\ flow' = [flow EXCEPT ![i] = "push"]
            /\ flowResult' = [flowResult EXCEPT ![i] = Null]
            /\ sectionIndex' = [sectionIndex EXCEPT ![i] = 1]
            /\ exportDetails' = [exportDetails EXCEPT ![i] = << >>]
            /\ allSuccessful' = [allSuccessful EXCEPT ![i] = TRUE]
    /\ UNCHANGED << pageVars, formErrors >>

\* The section the for loop of invocation i is at.
CurrentSection(i) == sectionsToExport[sectionIndex[i]]

\* Mutant: a section without content is sent like the others.
PushSkipSection_UpsertsEmpty(i) ==
    /\ flow[i] = "push"
    /\ sectionIndex[i] \in 1..Len(sectionsToExport)
    /\ flowInput[i].docs[CurrentSection(i).key] = ""
    /\ fetchCalls' = [fetchCalls EXCEPT ![i] =
          Append(@, [url |-> gitbookApiUrl(flowInput[i].env.GITBOOK_SPACE_ID,
                                           CurrentSection(i).path),
                     method |-> "PUT",
                     authorization |-> "Bearer " \o flowInput[i].env.GITBOOK_API_KEY,
                     markdown |-> "",
                     outcome |-> CHOOSE o \in FetchOutcomes : o.ok])]
    /\ exportDetails' = [exportDetails EXCEPT ![i] =
          Append(@, [section |-> CurrentSection(i).title,
                     path |-> CurrentSection(i).path,
                     status |-> "Success",
                     error |-> ""])]
    /\ sectionIndex' = [sectionIndex EXCEPT ![i] = @ + 1]
    /\ UNCHANGED << flow, flowInput, allSuccessful, zip, promptCalls,
                    flowResult, pageVars, formErrors >>

\* One turn of the loop for a section without content.
PushSkipSection(i) ==
    /\ flow[i] = "push"
    /\ sectionIndex[i] \in 1..Len(sectionsToExport)
    /\ flowInput[i].docs[CurrentSection(i).key] = ""
    /\ exportDetails' = [exportDetails EXCEPT ![i] =
          Append(@, [section |-> CurrentSection(i).title,
                     path |-> CurrentSection(i).path,
                     status |-> "Skipped (No Content)",
                     error |-> ""])]
    /\ sectionIndex' = [sectionIndex EXCEPT ![i] = @ + 1]
    /\ UNCHANGED << flow, flowInput, allSuccessful, fetchCalls, zip, promptCalls,
                    flowResult, pageVars, formErrors >>

\* response.json() resolved with the JSON value null, on which
\* `errorData.message` throws a TypeError.
BodyIsNull(outcome) == outcome.parsed /\ outcome.text = "null"

\* The detail entry of a section whose upsert ended with the given outcome.
UpsertDetail(section, outcome) ==
    IF outcome.threw
    THEN [section |-> section.title, path |-> section.path, status |-> "Failed",
          error |-> IF outcome.error # "" THEN outcome.error
                    ELSE "Unknown error during fetch operation."]
    ELSE IF outcome.ok
         THEN [section |-> section.title, path |-> section.path,
               status |-> "Success", error |-> ""]
         ELSE IF BodyIsNull(outcome)
              THEN [section |-> section.title, path |-> section.path,
                    status |-> "Failed",
                    error |-> "Cannot read properties of null (reading 'message')"]
              ELSE [section |-> section.title, path |-> section.path,
                    status |-> "Failed",
                    error |-> "API Error: " \o ToString(outcome.status) \o " - " \o
                              (IF ~outcome.parsed THEN "Failed to parse error response"
                               ELSE IF outcome.message # "" THEN outcome.message
                               ELSE outcome.text)]

\* The PUT request of a section, with the outcome of the fetch once it has
\* settled (Null before).
UpsertRequest(i, section, outcome) ==
    [url |-> gitbookApiUrl(flowInput[i].env.GITBOOK_SPACE_ID, section.path),
     method |-> "PUT",
     authorization |-> "Bearer " \o flowInput[i].env.GITBOOK_API_KEY,
     markdown |-> flowInput[i].docs[section.key],
     outcome |-> outcome]

\* A fetch was called and has not settled: the flow is suspended in its await.
FetchPending(i) ==
    /\ Len(fetchCalls[i]) > 0
    /\ fetchCalls[i][Len(fetchCalls[i])].outcome = Null

\* The fetch of the current section resolved with a response that is not ok
\* and the flow is suspended in `await response.json()`: the entry of the
\* section is not pushed yet.
ErrorBodyPending(i) ==
    /\ flow[i] = "push"
    /\ sectionIndex[i] \in 1..Len(sectionsToExport)
    /\ Len(fetchCalls[i]) > 0
    /\ LET call == fetchCalls[i][Len(fetchCalls[i])]
       IN  /\ call.url = gitbookApiUrl(flowInput[i].env.GITBOOK_SPACE_ID,
                                       CurrentSection(i).path)
           /\ call.outcome # Null
           /\ ~call.outcome.threw /\ ~call.outcome.ok

\* One turn of the loop for a section with content, up to `await fetch(...)`.
PushFetchSection(i) ==
    /\ flow[i] = "push"
    /\ sectionIndex[i] \in 1..Len(sectionsToExport)
    /\ flowInput[i].docs[CurrentSection(i).key] # ""
    /\ ~FetchPending(i) /\ ~ErrorBodyPending(i)
    /\ fetchCalls' = [fetchCalls EXCEPT ![i] =
          Append(@, UpsertRequest(i, CurrentSection(i), Null))]
    /\ UNCHANGED << flow, flowInput, sectionIndex, exportDetails, allSuccessful,
                    zip, promptCalls, flowResult, pageVars, formErrors >>

\* Mutant: a rejected fetch is recorded as Failed and the flag is left alone.
PushUpsertSection_ThrowKeepsFlag(i, outcome) ==
    /\ flow[i] = "push"
    /\ sectionIndex[i] \in 1..Len(sectionsToExport)
    /\ FetchPending(i)
    /\ fetchCalls' = [fetchCalls EXCEPT ![i][Len(fetchCalls[i])].outcome = outcome]
    /\ IF outcome.threw \/ outcome.ok
       THEN /\ exportDetails' = [exportDetails EXCEPT ![i] =
                  Append(@, UpsertDetail(CurrentSection(i), outcome))]
            /\ UNCHANGED allSuccessful
            /\ sectionIndex' = [sectionIndex EXCEPT ![i] = @ + 1]
       ELSE /\ allSuccessful' = [allSuccessful EXCEPT ![i] = FALSE]
            /\ UNCHANGED << exportDetails, sectionIndex >>
    /\ UNCHANGED << flow, flowInput, zip, promptCalls, flowResult, pageVars,
                    formErrors >>

\* Mutant: a rejected fetch ends the loop.
PushUpsertSection_StopsOnFailure(i, outcome) ==
    /\ flow[i] = "push"
    /\ sectionIndex[i] \in 1..Len(sectionsToExport)
    /\ FetchPending(i)
    /\ fetchCalls' = [fetchCalls EXCEPT ![i][Len(fetchCalls[i])].outcome = outcome]
    /\ IF outcome.threw \/ outcome.ok
       THEN /\ exportDetails' = [exportDetails EXCEPT ![i] =
                  Append(@, UpsertDetail(CurrentSection(i), outcome))]
            /\ allSuccessful' = [allSuccessful EXCEPT ![i] = @ /\ ~outcome.threw]
            /\ sectionIndex' = [sectionIndex EXCEPT ![i] =
                  IF outcome.threw THEN Len(sectionsToExport) + 1 ELSE @ + 1]
       ELSE /\ allSuccessful' = [allSuccessful EXCEPT ![i] = FALSE]
            /\ UNCHANGED << exportDetails, sectionIndex >>
    /\ UNCHANGED << flow, flowInput, zip, promptCalls, flowResult, pageVars,
                    formErrors >>

\* The fetch settles.  A response that is ok gets its Success entry; a
\* rejection is caught, clears the flag and gets its Failed entry; a response
\* that is not ok clears the flag and the flow goes on to
\* `await response.json()`.
PushUpsertSection(i, outcome) ==
    /\ flow[i] = "push"
    /\ sectionIndex[i] \in 1..Len(sectionsToExport)
    /\ FetchPending(i)
    /\ fetchCalls' = [fetchCalls EXCEPT ![i][Len(fetchCalls[i])].outcome = outcome]
    /\ IF outcome.threw \/ outcome.ok
       THEN /\ exportDetails' = [exportDetails EXCEPT ![i] =
                  Append(@, UpsertDetail(CurrentSection(i), outcome))]
            /\ allSuccessful' = [allSuccessful EXCEPT ![i] = @ /\ ~outcome.threw]
            /\ sectionIndex' = [sectionIndex EXCEPT ![i] = @ + 1]
       ELSE /\ allSuccessful' = [allSuccessful EXCEPT ![i] = FALSE]
            /\ UNCHANGED << exportDetails, sectionIndex >>
    /\ UNCHANGED << flow, flowInput, zip, promptCalls, flowResult, pageVars,
                    formErrors >>

\* response.json() settles: the Failed entry of the section is pushed, by the
\* else branch or, when reading the message of the body throws, by the catch
\* (which clears the flag once more).
PushReadErrorBody(i) ==
    /\ ErrorBodyPending(i)
    /\ exportDetails' = [exportDetails EXCEPT ![i] =
          Append(@, UpsertDetail(CurrentSection(i),
                                 fetchCalls[i][Len(fetchCalls[i])].outcome))]
    /\ allSuccessful' = [allSuccessful EXCEPT ![i] =
          @ /\ ~BodyIsNull(fetchCalls[i][Len(fetchCalls[i])].outcome)]
    /\ sectionIndex' = [sectionIndex EXCEPT ![i] = @ + 1]
    /\ UNCHANGED << flow, flowInput, fetchCalls, zip, promptCalls, flowResult,
                    pageVars, formErrors >>

\* The return after the loop.
PushReturn(i) ==
    /\ flow[i] = "push"
    /\ sectionIndex[i] = Len(sectionsToExport) + 1
    /\ flowResult' = [flowResult EXCEPT ![i] =
          [success |-> allSuccessful[i],
           message |-> IF allSuccessful[i]
                       THEN "Documentation successfully exported to GitBook."
                       ELSE "Some sections failed to export to GitBook. Check details.",
           details |-> exportDetails[i]]]
    /\ flow' = [flow EXCEPT ![i] = "idle"]
    /\ NoPushLocals(i)
    /\ UNCHANGED << flowInput, fetchCalls, zip, promptCalls, pageVars, formErrors >>

\* zip.file(name, data): the entry of that name is added or replaced.
JSZipFile(z, name, data) ==
    {e \in z : e.name # name} \cup {[name |-> name, data |-> data]}

\* zip.generateAsync({ type: "base64" }): the archive as base64 text, kept
\* here as the files the text decodes to.
generateAsync(z) == [type |-> "base64", files |-> z]

\* Mutant: every section gets an entry, also one without content.
doExportToGitBookFlowZip_IncludesEmpty(i, docsArg) ==
    LET z1 == JSZipFile({}, "README.md", docsArg["readme"])
        z2 == JSZipFile(z1, "API_DOCS.md", docsArg["apiDocs"])
        z3 == JSZipFile(z2, "USER_MANUAL.md", docsArg["userManual"])
        z4 == JSZipFile(z3, "FAQ.md", docsArg["faq"])
    IN  /\ flow[i] = "idle"
        /\ flowInput' = [flowInput EXCEPT ![i] = [kind |-> "zip", docs |-> docsArg]]
        /\ fetchCalls' = [fetchCalls EXCEPT ![i] = << >>]
        /\ promptCalls' = [promptCalls EXCEPT ![i] = << >>]
        /\ zip' = [zip EXCEPT ![i] = z4]
        /\ flowResult' = [flowResult EXCEPT ![i] = Null]
        /\ flow' = [flow EXCEPT ![i] = "zip"]
        /\ NoPushLocals(i)
        /\ UNCHANGED << pageVars, formErrors >>

\* doExportToGitBookFlow of the archive export, up to
\* `await zip.generateAsync(...)`.
doExportToGitBookFlowZip(i, docsArg) ==
    LET z1 == IF docsArg["readme"] # ""
              THEN JSZipFile({}, "README.md", docsArg["readme"]) ELSE {}
        z2 == IF docsArg["apiDocs"] # ""
              THEN JSZipFile(z1, "API_DOCS.md", docsArg["apiDocs"]) ELSE z1
        z3 == IF docsArg["userManual"] # ""
              THEN JSZipFile(z2, "USER_MANUAL.md", docsArg["userManual"]) ELSE z2
        z4 == IF docsArg["faq"] # ""
              THEN JSZipFile(z3, "FAQ.md", docsArg["faq"]) ELSE z3
    IN  /\ flow[i] = "idle"
        /\ flowInput' = [flowInput EXCEPT ![i] = [kind |-> "zip", docs |-> docsArg]]
        /\ fetchCalls' = [fetchCalls EXCEPT ![i] = << >>]
        /\ promptCalls' = [promptCalls EXCEPT ![i] = << >>]
        /\ zip' = [zip EXCEPT ![i] = z4]
        /\ flowResult' = [flowResult EXCEPT ![i] = Null]
        /\ flow' = [flow EXCEPT ![i] = "zip"]
        /\ NoPushLocals(i)
        /\ UNCHANGED << pageVars, formErrors >>

\* generateAsync settles: the flow returns the archive, or the rejection
\* leaves the flow as an exception.
ZipReturn(i, outcome) ==
    /\ flow[i] = "zip"
    /\ flowResult' = [flowResult EXCEPT ![i] =
          IF outcome.threw
          THEN [threw |-> TRUE, message |-> outcome.error]
          ELSE [fileName |-> "AutoDocifyExport.zip",
                mimeType |-> "application/zip",
                content |-> generateAsync(zip[i]),
                message |-> "Successfully generated AutoDocifyExport.zip. Please download and import into GitBook."]]
    /\ flow' = [flow EXCEPT ![i] = "idle"]
    /\ UNCHANGED << flowInput, sectionIndex, exportDetails, allSuccessful,
                    fetchCalls, zip, promptCalls, pageVars, formErrors >>

\* GenerateDocumentationInputSchema: codebase is a string, uiOnlyMode an
\* optional boolean.
GenerateDocumentationInputSchema(input) ==
    /\ "codebase" \in DOMAIN input
    /\ "uiOnlyMode" \in DOMAIN input => input.uiOnlyMode \in BOOLEAN

\* The answers of the model to the generation prompt, with one more whose faq
\* is the empty string.
GenerationRawOutputsWithEmpty ==
    GenerationRawOutputs \cup { [GenRaw("gen1") EXCEPT !["faq"] = Str("")] }

\* handleGenerateDocs called with its two arguments: the flow parses the
\* input and calls the prompt, up to `await prompt(input)`.
handleGenerateDocsCall(i, codebaseInput, uiOnlyMode) ==
    LET input == [codebase |-> codebaseInput, uiOnlyMode |-> uiOnlyMode] IN
    /\ FlowStarts(i, [kind |-> "generate", request |-> input])
    /\ promptCalls' = [promptCalls EXCEPT ![i] =
          IF GenerateDocumentationInputSchema(input) THEN << input >> ELSE << >>]
    /\ flowResult' = [flowResult EXCEPT ![i] = Null]
    /\ flow' = [flow EXCEPT ![i] = "generate"]
    /\ NoPushLocals(i)
    /\ UNCHANGED << pageVars, formErrors >>

\* Mutant: a call that failed is made once more before the error is returned.
handleGenerateDocsReturn_RetriesOnFailure(i, outcome) ==
    /\ flow[i] = "generate"
    /\ flowResult' = [flowResult EXCEPT ![i] =
          IF promptCalls[i] = << >>
          THEN [error |-> SchemaErrorMessage, data |-> Null]
          ELSE handleGenerateDocs(outcome)]
    /\ promptCalls' = [promptCalls EXCEPT ![i] =
          IF promptCalls[i] # << >> /\ handleGenerateDocs(outcome).error # ""
          THEN Append(@, promptCalls[i][1]) ELSE @]
    /\ flow' = [flow EXCEPT ![i] = "idle"]
    /\ UNCHANGED << flowInput, sectionIndex, exportDetails, allSuccessful,
                    fetchCalls, zip, pageVars, formErrors >>

\* The prompt settles and the action wraps what comes back (an input the
\* schema rejects did not reach the prompt and comes back as an error).
handleGenerateDocsReturn(i, outcome) ==
    /\ flow[i] = "generate"
    /\ flowResult' = [flowResult EXCEPT ![i] =
          IF promptCalls[i] = << >>
          THEN [error |-> SchemaErrorMessage, data |-> Null]
          ELSE handleGenerateDocs(outcome)]
    /\ flow' = [flow EXCEPT ![i] = "idle"]
    /\ UNCHANGED << flowInput, sectionIndex, exportDetails, allSuccessful,
                    fetchCalls, zip, promptCalls, pageVars, formErrors >>

\* RegenerateDocumentationSectionInputSchema: an object with the three string
\* fields; any string is accepted for each of them.
RegenerateDocumentationSectionInputSchema(input) ==
    {"codebase", "sectionName", "tone"} \subseteq DOMAIN input

\* The arguments a caller of the server action may pass: the section keys and
\* tones of the page, and names that are in neither list.
SectionNameArgs == {"readme", "faq", "changelog"}

ToneArgs == {"concise", "formal", "sarcastic"}

CodebaseArgs == {GitHubPrefix \o "user/repo"}

SectionNameArgsOf(i) == IF i = 1 THEN SectionNameArgs ELSE {"readme"}

ToneArgsOf(i) == IF i = 1 THEN ToneArgs ELSE {"concise"}

\* handleRegenerateSection called with its four arguments: the flow parses
\* the input and calls the prompt, up to `await prompt(input)`.
handleRegenerateSectionCall(i, codebase, sectionName, tone, uiOnlyMode) ==
    LET input == RegenerationRequest(codebase, sectionName, tone, uiOnlyMode) IN
    /\ FlowStarts(i, [kind |-> "regenerate", request |-> input])
    /\ promptCalls' = [promptCalls EXCEPT ![i] =
          IF RegenerateDocumentationSectionInputSchema(input)
          THEN << input >> ELSE << >>]
    /\ flowResult' = [flowResult EXCEPT ![i] = Null]
    /\ flow' = [flow EXCEPT ![i] = "regenerate"]
    /\ NoPushLocals(i)
    /\ UNCHANGED << pageVars, formErrors >>

\* The prompt settles and the action wraps what comes back.
handleRegenerateSectionReturn(i, outcome) ==
    /\ flow[i] = "regenerate"
    /\ flowResult' = [flowResult EXCEPT ![i] =
          IF promptCalls[i] = << >>
          THEN [error |-> SchemaErrorMessage, data |-> Null]
          ELSE handleRegenerateSection(outcome)]
    /\ flow' = [flow EXCEPT ![i] = "idle"]
    /\ UNCHANGED << flowInput, sectionIndex, exportDetails, allSuccessful,
                    fetchCalls, zip, promptCalls, pageVars, formErrors >>

----------------------------------------------------------------------------
(* Specification *)

Next ==
    \/ \E values \in FormValuesSet : handleSubmitInvalid(values)
    \/ \E values \in FormValuesSet : Submit(values)
    \/ \E values \in FormValuesSet : SubmitFile(values)
    \/ \E i \in 1..MaxSubmissions : FileReadResolve(i)
    \/ \E i \in 1..MaxSubmissions : FileReadReject(i)
    \/ \E i \in 1..MaxSubmissions, outcome \in Outcomes(GenerationRawOutputs) :
           GenerationResponse(i, outcome)
    \/ \E section \in SectionChoices : handleEditSection(section)
    \/ \E text \in EditTexts : ChangeEditText(text)
    \/ CancelEdit
    \/ handleSaveEdit
    \/ \E section \in SectionChoices : OpenRegenerateDialog(section)
    \/ CloseRegenerateDialog
    \/ \E tone \in ToneChoices, customPrompt \in CustomPrompts :
           onRegenerateSubmit([tone |-> tone, customPrompt |-> customPrompt])
    \/ \E outcome \in Outcomes(RegenerationRawOutputs) : RegenerationResponse(1, outcome)
    \/ triggerExport
    \/ \E result \in ExportResults : ExportResponse(1, result)

Spec == Init /\ [][Next]_vars

\* The server flows and server actions, invoked beside each other.
FlowNext ==
    \/ \E i \in Invocations :
          \E docsArg \in ExportDocsOf(i), environment \in EnvChoicesOf(i) :
             doExportToGitBookFlowRemote(i, docsArg, environment)
    \/ \E i \in Invocations : PushSkipSection(i)
    \/ \E i \in Invocations : PushFetchSection(i)
    \/ \E i \in Invocations :
          \E outcome \in FetchOutcomesOf(i) : PushUpsertSection(i, outcome)
    \/ \E i \in Invocations : PushReadErrorBody(i)
    \/ \E i \in Invocations : PushReturn(i)
    \/ \E i \in Invocations :
          \E docsArg \in ExportDocsOf(i) : doExportToGitBookFlowZip(i, docsArg)
    \/ \E i \in Invocations :
          \E outcome \in ZipOutcomesOf(i) : ZipReturn(i, outcome)
    \/ \E i \in Invocations :
          \E codebase \in CodebaseArgs, uiOnlyMode \in UiOnlyModeArgsOf(i) :
             handleGenerateDocsCall(i, codebase, uiOnlyMode)
    \/ \E i \in Invocations :
          \E outcome \in PromptOutcomesOf(i, GenerationRawOutputsWithEmpty) :
             handleGenerateDocsReturn(i, outcome)
    \/ \E i \in Invocations :
          \E codebase \in CodebaseArgs, sectionName \in SectionNameArgsOf(i),
             tone \in ToneArgsOf(i), uiOnlyMode \in UiOnlyModeArgsOf(i) :
             handleRegenerateSectionCall(i, codebase, sectionName, tone, uiOnlyMode)
    \/ \E i \in Invocations :
          \E outcome \in PromptOutcomesOf(i, RegenerationRawOutputs) :
             handleRegenerateSectionReturn(i, outcome)

FlowSpec == Init /\ [][FlowNext]_vars

\* The form of the page on its own: submissions of every kind and the
\* completions of what they start.
FormNext ==
    \/ \E values \in FormInputs : handleSubmitInvalid(values)
    \/ \E values \in FormInputs : Submit(values)
    \/ \E values \in FormInputs : SubmitFile(values)
    \/ \E i \in 1..MaxSubmissions : FileReadResolve(i)
    \/ \E i \in 1..MaxSubmissions : FileReadReject(i)
    \/ \E i \in 1..MaxSubmissions, outcome \in Outcomes(GenerationRawOutputsWithEmpty) :
           GenerationResponse(i, outcome)

FormSpec == Init /\ [][FormNext]_vars

----------------------------------------------------------------------------
(* Properties *)

\* The DocumentSet a complete answer of the model yields.
GenData(tag) == [s \in Sections |-> GenRaw(tag)[s].v]

\* The capability threw or answered outside the response schema.
GenerationFails(outcome) ==
    outcome.threw \/ ~GenerateDocumentationOutputSchema(outcome.output)

RegenerationFails(outcome) ==
    outcome.threw \/ ~RegenerateDocumentationSectionOutputSchema(outcome.output)

\* C1: when a regeneration of section f succeeds and the DocumentSet is still
\* the one the request was made on, the response sets f to the returned
\* regeneratedContent and leaves the other three sections as they were.
C1_RegenerationChangesOnlyTarget ==
    [][Len(regenerationCalls') < Len(regenerationCalls) =>
       \A outcome \in Outcomes(RegenerationRawOutputs) :
          ( /\ ~RegenerationFails(outcome)
            /\ docs # Null
            /\ regenerationCalls[1].docs = docs
            /\ RegenerationResponse(1, outcome) )
          => /\ docs' # Null
             /\ docs'[regenerationCalls[1].sectionToRegenerate]
                    = outcome.output["regeneratedContent"].v
             /\ \A g \in Sections \ {regenerationCalls[1].sectionToRegenerate} :
                    docs'[g] = docs[g]]_vars

\* A section holds the regenerated text, the others the generated ones.
C1_Witness ==
    /\ docs # Null
    /\ \E f \in SectionChoices :
          /\ docs[f] = "regen1"
          /\ \A g \in Sections \ {f} : docs[g] = GenData("gen1")[g]

\* C2: an edit of section g saved while a regeneration of another section f is
\* in flight is still in g after the response of the regeneration is applied.
C2_SavedEditSurvivesRegeneration ==
    [][\A g \in Sections :
          ( /\ Len(regenerationCalls) > 0
            /\ Len(regenerationCalls') < Len(regenerationCalls)
            /\ g # regenerationCalls[1].sectionToRegenerate
            /\ docs # Null /\ regenerationCalls[1].docs # Null
            /\ docs[g] \in EditTexts
            /\ docs[g] # regenerationCalls[1].docs[g] )
          => docs' # Null /\ docs'[g] = docs[g]]_vars

\* C3: the step that completes a generation call either leaves the
\* DocumentSet as it is or sets all four sections to the values of one response.
C3_FullGenerationIsAtomic ==
    [][(Len(generationCalls') < Len(generationCalls) /\ docs' # docs)
          => \E tag \in GenTags : docs' = GenData(tag)]_vars

\* The DocumentSet is the second complete answer.
C3_Witness == docs = GenData("gen2")

\* C4: while a generation call is pending the DocumentSet is null.
C4_NullWhileGenerationPending == isGenerating => docs = Null

\* C5: at most one call of each operation type is in flight.
C5_AtMostOneCallPerType ==
    /\ Len(generationCalls) <= 1
    /\ Len(regenerationCalls) <= 1
    /\ Len(exportCalls) <= 1

\* C6: no section has both an open edit and a regeneration in flight.
C6_EditExcludesRegeneration ==
    \A i \in 1..Len(regenerationCalls) :
        regenerationCalls[i].sectionToRegenerate # editingSection

\* C7: the stored source changes only in a step that issues a generation call,
\* to the source of that call, and a regeneration request issued later carries
\* the stored source, whatever edits and regenerations did to the DocumentSet.
C7_RegenerationUsesStoredSource ==
    /\ [][Len(generationCalls') > Len(generationCalls)
             => /\ originalCodebaseInputForRegen'
                       = generationCalls'[Len(generationCalls')].codebase
                /\ originalUiOnlyModeForRegen'
                       = generationCalls'[Len(generationCalls')].uiOnlyMode]_vars
    /\ [][originalCodebaseInputForRegen' # originalCodebaseInputForRegen
             => Len(generationCalls') > Len(generationCalls)]_vars
    /\ [][Len(regenerationCalls') > Len(regenerationCalls)
             => /\ regenerationCalls'[Len(regenerationCalls')].request.codebase
                       = originalCodebaseInputForRegen
                /\ originalCodebaseInputForRegen' = originalCodebaseInputForRegen]_vars

\* A regeneration is in flight that was requested on a DocumentSet changed by
\* the user.
C7_Witness ==
    \E i \in 1..Len(regenerationCalls) :
        /\ regenerationCalls[i].docs # Null
        /\ ModifiedSections(regenerationCalls[i].docs) # {}
        /\ regenerationCalls[i].request.codebase = originalCodebaseInputForRegen

\* C8: after a generation call has failed the DocumentSet is null: the
\* clearing before the call is not reverted and nothing of the failed attempt
\* is written.
C8_FailedGenerationLeavesNull ==
    [][Len(generationCalls') < Len(generationCalls) =>
       \A i \in 1..MaxSubmissions, outcome \in Outcomes(GenerationRawOutputs) :
          (GenerationFails(outcome) /\ GenerationResponse(i, outcome))
          => docs' = Null]_vars

\* C9: a regeneration call that fails leaves all four sections as they were.
C9_FailedRegenerationWritesNothing ==
    [][Len(regenerationCalls') < Len(regenerationCalls) =>
       \A outcome \in Outcomes(RegenerationRawOutputs) :
          (RegenerationFails(outcome) /\ RegenerationResponse(1, outcome))
          => docs' = docs]_vars

\* A regeneration requested on the current DocumentSet is in flight.
C9_Witness ==
    /\ Len(regenerationCalls) = 1
    /\ docs # Null
    /\ regenerationCalls[1].docs = docs

\* C10: the DocumentSet is null or has exactly the four keys, and a response
\* that misses a key or has a value that is not a string changes nothing.
C10_AllFourKeysOrNull ==
    /\ [](docs = Null \/ DOMAIN docs = Sections)
    /\ [][Len(generationCalls') < Len(generationCalls) =>
          \A i \in 1..MaxSubmissions, outcome \in Outcomes(GenerationRawOutputs) :
             ( /\ ~outcome.threw
               /\ ~GenerateDocumentationOutputSchema(outcome.output)
               /\ GenerationResponse(i, outcome) )
             => docs' = docs]_vars

\* The generation from a UI description has ended and there is no DocumentSet.
C10_Witness ==
    /\ docs = Null
    /\ generationCalls = << >> /\ fileReads = << >>
    /\ originalUiOnlyModeForRegen

----------------------------------------------------------------------------
(* Properties of the remote push *)

\* A remote push has returned and its result is there.
PushReturned(i) ==
    /\ flow[i] = "idle"
    /\ flowResult[i] # Null
    /\ flowInput[i].kind = "push"

\* The credential and the space identifier are both set.
PushConfigured(i) ==
    /\ flowInput[i].env.GITBOOK_API_KEY # ""
    /\ flowInput[i].env.GITBOOK_SPACE_ID # ""

\* The fetch resolved with a 2xx response.
UpsertSucceeded(outcome) == ~outcome.threw /\ outcome.ok

\* C11: the success flag of a configured remote push is true exactly when every
\* section that was attempted (not skipped) has status Success, which is when
\* every upsert call got a 2xx response; a Failed entry makes the flag false.
C11_AggregateSuccessIffAllAttemptedSucceed ==
    \A i \in Invocations :
    (PushReturned(i) /\ PushConfigured(i)) =>
        /\ flowResult[i].success
              <=> \A k \in 1..Len(flowResult[i].details) :
                     flowResult[i].details[k].status # "Skipped (No Content)"
                        => flowResult[i].details[k].status = "Success"
        /\ flowResult[i].success
              <=> \A j \in 1..Len(fetchCalls[i]) :
                     UpsertSucceeded(fetchCalls[i][j].outcome)
        /\ (\E k \in 1..Len(flowResult[i].details) :
               flowResult[i].details[k].status = "Failed") => ~flowResult[i].success

\* A push has returned where the only failure is a fetch that was rejected.
C11_Witness ==
    /\ PushReturned(1) /\ PushConfigured(1)
    /\ Len(fetchCalls[1]) = 3
    /\ Cardinality({j \in 1..Len(fetchCalls[1]) : fetchCalls[1][j].outcome.threw}) = 1
    /\ \A j \in 1..Len(fetchCalls[1]) :
          ~fetchCalls[1][j].outcome.threw => fetchCalls[1][j].outcome.ok
    /\ ~flowResult[1].success

\* C12: a failed upsert does not stop the push.  The result has one entry per
\* section in the fixed order; a section without content is Skipped, every
\* section with content was sent in exactly one upsert call and is Success
\* when that call got a 2xx response and Failed with an error text otherwise.
C12_FailureDoesNotStopThePush ==
    \A i \in Invocations :
    (PushReturned(i) /\ PushConfigured(i)) =>
        /\ Len(flowResult[i].details) = Len(sectionsToExport)
        /\ Len(fetchCalls[i])
              = Cardinality({s \in Sections : flowInput[i].docs[s] # ""})
        /\ \A k \in 1..Len(sectionsToExport) :
              LET section == sectionsToExport[k]
                  detail == flowResult[i].details[k]
                  calls == {j \in 1..Len(fetchCalls[i]) :
                               fetchCalls[i][j].url
                                  = gitbookApiUrl(flowInput[i].env.GITBOOK_SPACE_ID,
                                                  section.path)}
              IN  /\ detail.section = section.title
                  /\ detail.path = section.path
                  /\ IF flowInput[i].docs[section.key] = ""
                     THEN detail.status = "Skipped (No Content)" /\ calls = {}
                     ELSE /\ Cardinality(calls) = 1
                          /\ \A j \in calls :
                                /\ fetchCalls[i][j].markdown
                                      = flowInput[i].docs[section.key]
                                /\ IF UpsertSucceeded(fetchCalls[i][j].outcome)
                                   THEN detail.status = "Success" /\ detail.error = ""
                                   ELSE detail.status = "Failed" /\ detail.error # ""

\* The upsert of the README was rejected, the one of apiDocs got a 500 and
\* the other two a 200, while another invocation was running.
C12_Witness ==
    /\ PushReturned(1) /\ PushConfigured(1)
    /\ Len(flowResult[1].details) = 4
    /\ flowResult[1].details[1].status = "Failed"
    /\ flowResult[1].details[1].error = "fetch failed"
    /\ flowResult[1].details[2].status = "Failed"
    /\ flowResult[1].details[2].error = "API Error: 500 - Internal Server Error"
    /\ flowResult[1].details[3].status = "Success"
    /\ flowResult[1].details[4].status = "Success"
    /\ ~flowResult[1].success
    /\ flow[2] # "idle"

\* C13: a remote push without the credential or without the space identifier
\* has returned at once, with success false and no entries, and no upsert call
\* was made.
C13_MissingConfigurationFailsFast ==
    \A i \in Invocations :
    ( /\ flowInput[i] # Null
      /\ flowInput[i].kind = "push"
      /\ ~PushConfigured(i) )
    => /\ flow[i] = "idle"
       /\ fetchCalls[i] = << >>
       /\ flowResult[i] # Null
       /\ flowResult[i].success = FALSE
       /\ flowResult[i].details = << >>

\* A push of four sections with content was started without the credential.
C13_Witness ==
    /\ flowInput[1] # Null
    /\ flowInput[1].kind = "push"
    /\ flowInput[1].env.GITBOOK_API_KEY = ""
    /\ flowInput[1].env.GITBOOK_SPACE_ID # ""
    /\ \A s \in Sections : flowInput[1].docs[s] # ""

----------------------------------------------------------------------------
(* Properties of the archive export *)

\* An archive export has returned its archive.
ZipReturned(i) ==
    /\ flow[i] = "idle"
    /\ flowResult[i] # Null
    /\ flowInput[i].kind = "zip"
    /\ "fileName" \in DOMAIN flowResult[i]

\* The file name of a section in the archive.
CanonicalFileName(s) ==
    CASE s = "readme"     -> "README.md"
      [] s = "apiDocs"    -> "API_DOCS.md"
      [] s = "userManual" -> "USER_MANUAL.md"
      [] s = "faq"        -> "FAQ.md"

\* C14: the archive holds exactly one entry for every section with content,
\* under the canonical file name of the section and with its content, and no
\* other entry.
C14_ArchiveEntriesAreNonEmptySections ==
    \A i \in Invocations :
    ZipReturned(i) =>
        /\ flowResult[i].content.files
              = { [name |-> CanonicalFileName(s), data |-> flowInput[i].docs[s]] :
                     s \in {t \in Sections : flowInput[i].docs[t] # ""} }
        /\ flowResult[i].mimeType = "application/zip"
        /\ flowResult[i].content.type = "base64"

\* The archive of a DocumentSet with two empty sections has two entries.
C14_Witness ==
    /\ ZipReturned(1)
    /\ flowInput[1].docs["apiDocs"] = "" /\ flowInput[1].docs["faq"] = ""
    /\ flowInput[1].docs["readme"] # "" /\ flowInput[1].docs["userManual"] # ""
    /\ Cardinality(flowResult[1].content.files) = 2

\* C15 as claimed: the archive has an entry for each of the four sections,
\* also for an empty one.
C15_ArchiveAlwaysHasAllFour ==
    \A i \in Invocations :
    ZipReturned(i) =>
        {e.name : e \in flowResult[i].content.files}
            = {CanonicalFileName(s) : s \in Sections}

\* C15 as amended: both modes leave out a section without content.  The
\* archive has no entry of its file name, and the remote push makes no upsert
\* call for its path and reports it as Skipped (No Content).
C15_BothModesSkipEmptySections ==
    \A i \in Invocations :
    /\ ZipReturned(i) =>
          \A s \in Sections :
              flowInput[i].docs[s] = ""
                 => \A e \in flowResult[i].content.files :
                       e.name # CanonicalFileName(s)
    /\ (PushReturned(i) /\ PushConfigured(i)) =>
          \A k \in 1..Len(sectionsToExport) :
              flowInput[i].docs[sectionsToExport[k].key] = ""
                 => /\ flowResult[i].details[k].status = "Skipped (No Content)"
                    /\ \A j \in 1..Len(fetchCalls[i]) :
                          fetchCalls[i][j].url
                             # gitbookApiUrl(flowInput[i].env.GITBOOK_SPACE_ID,
                                             sectionsToExport[k].path)

\* An archive was made of a DocumentSet whose faq alone is empty.
C15_Witness ==
    /\ ZipReturned(1)
    /\ flowInput[1].docs["faq"] = ""
    /\ \A s \in Sections \ {"faq"} : flowInput[1].docs[s] # ""
    /\ Cardinality(flowResult[1].content.files) = 3

----------------------------------------------------------------------------
(* Properties of the submission form *)

\* The form is submitted with the given values, whatever the validation says.
SubmitAttempt(values) ==
    \/ handleSubmitInvalid(values)
    \/ Submit(values)
    \/ SubmitFile(values)

\* The step issues no generation call, starts no file read and leaves the
\* DocumentSet and the stored source as they are.
SubmissionRejected ==
    UNCHANGED << docs, originalCodebaseInputForRegen, originalUiOnlyModeForRegen,
                 generationCalls, fileReads >>

\* The step issues the generation call for the given source and stores it.
SubmissionAccepted(source, uiOnlyModeValue) ==
    /\ generationCalls' = Append(generationCalls,
                                 [codebase |-> source, uiOnlyMode |-> uiOnlyModeValue])
    /\ originalCodebaseInputForRegen' = source
    /\ originalUiOnlyModeForRegen' = uiOnlyModeValue
    /\ fileReads' = fileReads
    /\ formErrors' = {}

\* C16: what a submission in UI-only mode does is a function of uiDescription
\* alone.  With an empty or blank uiDescription it is rejected with an issue
\* on uiDescription, otherwise the source of the generation is uiDescription
\* as typed, in UI mode; the input method and the url, text and file fields
\* play no part.
C16_UiModeDependsOnlyOnUiDescription ==
    [][\A values \in FormInputs :
          (values.uiOnlyMode /\ SubmitAttempt(values))
          => IF trim(values.uiDescription) = ""
             THEN formErrors' = {"uiDescription"} /\ SubmissionRejected
             ELSE SubmissionAccepted(values.uiDescription, TRUE)]_vars

\* A generation from the UI description is pending and the form has no error.
C16_Witness ==
    /\ Len(generationCalls) = 1
    /\ generationCalls[1].uiOnlyMode
    /\ generationCalls[1].codebase = "A dashboard with a login screen"
    /\ formErrors = {}

\* superRefine adds at least one issue for the value: the checks of the
\* schema, written out as one condition.
FailsValidation(values) ==
    IF values.uiOnlyMode
    THEN trim(values.uiDescription) = ""
    ELSE \/ values.inputMethod = "url"
            /\ (values.codebaseInput = ""
                \/ ~startsWith(values.codebaseInput, GitHubPrefix))
         \/ values.inputMethod = "file"
            /\ ~values.codebaseFile.present
         \/ values.inputMethod = "file"
            /\ values.codebaseFile.present
            /\ values.codebaseFile.type \notin ZipTypes
         \/ values.inputMethod = "text"
            /\ (values.codebaseInput = ""
                \/ Len(trim(values.codebaseInput)) < MinSnippetLength)

\* C17: a submission that fails validation, and a file that cannot be read,
\* issue no generation call and leave the DocumentSet and the stored source
\* as they were; the failed validation is reported as an error of the form.
C17_InvalidSubmissionChangesNothing ==
    [][/\ \A values \in FormInputs :
             (FailsValidation(values) /\ SubmitAttempt(values))
             => SubmissionRejected /\ formErrors' # {}
       /\ \A i \in 1..Len(fileReads) :
             FileReadReject(i)
             => UNCHANGED << docs, originalCodebaseInputForRegen,
                             originalUiOnlyModeForRegen, generationCalls >>]_vars

\* A rejected upload is reported while the documents of an earlier generation
\* are shown.
C17_Witness ==
    /\ formErrors = {"codebaseFile"}
    /\ docs = GenData("gen1")
    /\ originalCodebaseInputForRegen # ""
    /\ generationCalls = << >> /\ fileReads = << >>

\* C18 as claimed: a pasted text is accepted exactly when it has at least 50
\* characters, and a rejected one is reported on codebaseInput.
C18_TextAcceptedIffFiftyCharacters ==
    [][\A values \in FormInputs :
          (~values.uiOnlyMode /\ values.inputMethod = "text" /\ SubmitAttempt(values))
          => IF Len(values.codebaseInput) >= MinSnippetLength
             THEN SubmissionAccepted(values.codebaseInput, FALSE)
             ELSE formErrors' = {"codebaseInput"} /\ SubmissionRejected]_vars

\* C18 as amended: a pasted text is accepted exactly when it has at least 50
\* characters once leading and trailing white space is removed; the text is
\* passed on as pasted, and a rejected one is reported on codebaseInput.
C18_TextAcceptedIffFiftyTrimmedCharacters ==
    [][\A values \in FormInputs :
          (~values.uiOnlyMode /\ values.inputMethod = "text" /\ SubmitAttempt(values))
          => IF Len(trim(values.codebaseInput)) >= MinSnippetLength
             THEN SubmissionAccepted(values.codebaseInput, FALSE)
             ELSE formErrors' = {"codebaseInput"} /\ SubmissionRejected]_vars

\* A generation from a pasted text of exactly the minimum length is pending.
C18_Witness ==
    /\ Len(generationCalls) = 1
    /\ ~generationCalls[1].uiOnlyMode
    /\ generationCalls[1].codebase = Snippet(MinSnippetLength)

----------------------------------------------------------------------------
(* Properties of the regeneration request *)

\* A call of the regeneration action has returned and its result is there.
RegenerateReturned(i) ==
    /\ flow[i] = "idle"
    /\ flowResult[i] # Null
    /\ flowInput[i].kind = "regenerate"

\* C19: a regeneration request for a section that is not one of readme,
\* apiDocs, userManual, faq is rejected with an error and the prompt of the
\* generation capability is not called for it.
C19_UnknownSectionIsRejected ==
    \A i \in Invocations :
    (RegenerateReturned(i) /\ flowInput[i].request.sectionName \notin Sections)
    => /\ promptCalls[i] = << >>
       /\ flowResult[i].error # ""
       /\ flowResult[i].data = Null

\* C20: a regeneration request with a tone outside the six tones is rejected
\* with an error and the prompt of the generation capability is not called
\* for it.
C20_UnknownToneIsRejected ==
    \A i \in Invocations :
    (RegenerateReturned(i) /\ flowInput[i].request.tone \notin Tones)
    => /\ promptCalls[i] = << >>
       /\ flowResult[i].error # ""
       /\ flowResult[i].data = Null

----------------------------------------------------------------------------
(* Properties of the in-place edit *)

\* C21: saving the edit of section f sets f to the text of the edit area,
\* leaves the other three sections as they were and issues no generation or
\* regeneration call; cancelling the edit leaves the DocumentSet as it was.
C21_SaveEditChangesOnlyEditedSection ==
    /\ [][handleSaveEdit
             => /\ docs' # Null
                /\ docs'[editingSection] = editText
                /\ \A g \in Sections \ {editingSection} : docs'[g] = docs[g]
                /\ UNCHANGED << generationCalls, regenerationCalls, fileReads >>]_vars
    /\ [][CancelEdit
             => UNCHANGED << docs, generationCalls, regenerationCalls >>]_vars

\* The text typed by the user was saved into faq and the edit is closed.
C21_Witness ==
    /\ docs # Null
    /\ docs["faq"] = "edited by user"
    /\ \A g \in Sections \ {"faq"} : docs[g] = GenData("gen2")[g]
    /\ editingSection = NoSection
    /\ regenerationCalls = << >>

----------------------------------------------------------------------------
(* Properties of the calls made on the server *)

\* A call of the generation action has returned and its result is there.
GenerateReturned(i) ==
    /\ flow[i] = "idle"
    /\ flowResult[i] # Null
    /\ flowInput[i].kind = "generate"

\* C22: nothing is retried.  A generation request and a regeneration request
\* have called the prompt exactly once when they return, with a result or
\* with an error, and a remote push has called fetch at most once for the
\* path of a section, also after a failed call.
C22_NothingIsRetried ==
    \A i \in Invocations :
    /\ GenerateReturned(i)
          => /\ Len(promptCalls[i]) = 1
             /\ promptCalls[i][1] = flowInput[i].request
    /\ RegenerateReturned(i)
          => /\ Len(promptCalls[i]) = 1
             /\ promptCalls[i][1] = flowInput[i].request
    /\ (flowInput[i] # Null /\ flowInput[i].kind = "push")
          => \A j, k \in 1..Len(fetchCalls[i]) :
                fetchCalls[i][j].url = fetchCalls[i][k].url => j = k

\* A generation request has returned an error after one call of the prompt.
C22_Witness ==
    /\ GenerateReturned(1)
    /\ flowResult[1].error = "quota exceeded"
    /\ Len(promptCalls[1]) = 1

----------------------------------------------------------------------------
(* Properties of what the page reports *)

\* The title of the toast the callback of onSubmit shows for a result
\* ("" when it shows none).
GenerationToast(result) ==
    IF result.error # "" THEN "Generation Failed"
    ELSE IF result.data # Null THEN "Documentation Generated!"
    ELSE ""

\* The title of the toast the callback of onRegenerateSubmit shows.
RegenerationToast(call, result) ==
    IF result.error # "" THEN "Regeneration Failed"
    ELSE IF result.data # Null /\ call.docs # Null THEN "Section Regenerated!"
    ELSE ""

\* The title of the toast the callback of triggerExport shows.
ExportToast(result) ==
    IF result.hasContent THEN "GitBook Export Ready"
    ELSE IF result.error # "" THEN "GitBook Export Failed"
    ELSE "GitBook Export Status"

\* C23: a call that completes ends with its success effect (the DocumentSet
\* holds what the call returned, or the export is reported) or with an error
\* that is shown to the user; none ends with neither.
C23_NoFailureIsSwallowed ==
    [][/\ Len(generationCalls') < Len(generationCalls) =>
             \A i \in 1..MaxSubmissions, outcome \in Outcomes(GenerationRawOutputs) :
                GenerationResponse(i, outcome)
                => LET result == handleGenerateDocs(outcome)
                   IN  \/ result.error # ""
                          /\ GenerationToast(result) = "Generation Failed"
                       \/ result.data # Null /\ docs' = result.data
       /\ Len(regenerationCalls') < Len(regenerationCalls) =>
             \A outcome \in Outcomes(RegenerationRawOutputs) :
                RegenerationResponse(1, outcome)
                => LET call == regenerationCalls[1]
                       result == handleRegenerateSection(outcome)
                   IN  \/ result.error # ""
                          /\ RegenerationToast(call, result) = "Regeneration Failed"
                       \/ /\ result.data # Null
                          /\ docs' # Null
                          /\ docs'[call.sectionToRegenerate]
                                = result.data.regeneratedContent
       /\ Len(exportCalls') < Len(exportCalls) =>
             \A result \in ExportResults :
                ExportResponse(1, result) => ExportToast(result) # ""]_vars

----------------------------------------------------------------------------
(* Properties of the accepted generation response *)

\* C24: a DocumentSet that a generation response was accepted into has the
\* four keys and a non-empty string under each of them, for a source in code
\* mode and in UI mode alike.
C24_AcceptedSectionsAreNonEmpty ==
    docs # Null =>
        /\ DOMAIN docs = Sections
        /\ \A s \in Sections : docs[s] # ""

----------------------------------------------------------------------------
(* Properties of overlapping generations *)

\* C25: a generation response that passes the schema is written into the
\* DocumentSet whenever it arrives, also when the stored source is by then
\* the one of a newer submission; the stored source is left as it is, so the
\* DocumentSet then holds the sections of the older submission next to the
\* source of the newer one.
C25_StaleResponseIsWritten ==
    [][Len(generationCalls') < Len(generationCalls) =>
       \A i \in 1..MaxSubmissions, outcome \in Outcomes(GenerationRawOutputs) :
          (~GenerationFails(outcome) /\ GenerationResponse(i, outcome))
          => /\ docs' = [s \in Sections |-> outcome.output[s].v]
             /\ originalCodebaseInputForRegen' = originalCodebaseInputForRegen
             /\ originalUiOnlyModeForRegen' = originalUiOnlyModeForRegen]_vars

\* The newer of two overlapping submissions has been answered and the call of
\* the older one, made for another source than the stored one, is pending.
C25_Witness ==
    /\ Len(generationCalls) = 1
    /\ generationCalls[1].codebase # originalCodebaseInputForRegen
    /\ docs # Null
    /\ fileReads = << >>

----------------------------------------------------------------------------
(* Properties of the order of the remote push *)

\* The fixed order of the sections, with the paths they are written to.
C26_Order ==
    << [key |-> "readme",     path |-> "readme.md"],
       [key |-> "apiDocs",    path |-> "api-docs.md"],
       [key |-> "userManual", path |-> "user-manual.md"],
       [key |-> "faq",        path |-> "faq.md"] >>

\* The positions of C26_Order below n whose section has content.
C26_AttemptedBefore(i, n) ==
    {k \in 1..4 : k < n /\ flowInput[i].docs[C26_Order[k].key] # ""}

\* The status entries of the push, while it runs and once it has returned.
C26_Entries(i) == IF flow[i] = "push" THEN exportDetails[i] ELSE flowResult[i].details

\* C26: within one remote push the sections are processed one after the other
\* in the order readme, apiDocs, userManual, faq.  At most one upsert call is
\* in flight, and it is the last one issued; the j-th call is the one of the
\* j-th section with content in that order; a call is issued for a section
\* only when every section before it has its status entry, so the call of
\* the section before it has completed; and the status entries are in the
\* same order.
C26_SectionsAreProcessedInOrder ==
    \A i \in Invocations :
    ((flow[i] = "push" \/ PushReturned(i)) /\ PushConfigured(i)) =>
        /\ \A j \in 1..Len(fetchCalls[i]) :
              fetchCalls[i][j].outcome = Null => j = Len(fetchCalls[i])
        /\ \A k \in 1..Len(C26_Entries(i)) :
              k <= 4 /\ C26_Entries(i)[k].path = C26_Order[k].path
        /\ \A k \in 1..4 :
              LET j == Cardinality(C26_AttemptedBefore(i, k)) + 1
              IN  (flowInput[i].docs[C26_Order[k].key] # "" /\ j <= Len(fetchCalls[i]))
                  => /\ fetchCalls[i][j].url =
                           gitbookApiUrl(flowInput[i].env.GITBOOK_SPACE_ID,
                                         C26_Order[k].path)
                     /\ fetchCalls[i][j].markdown = flowInput[i].docs[C26_Order[k].key]
                     /\ Len(C26_Entries(i)) >= k - 1
                     /\ fetchCalls[i][j].outcome = Null => Len(C26_Entries(i)) = k - 1
                     /\ j < Len(fetchCalls[i]) => Len(C26_Entries(i)) >= k
        /\ Len(fetchCalls[i])
              <= Cardinality(C26_AttemptedBefore(i, Len(C26_Entries(i)) + 2))

\* The call for the user manual is in flight after the call for the README
\* failed and the API docs were skipped, beside another push whose call is in
\* flight as well.
C26_Witness ==
    /\ flow[1] = "push"
    /\ FetchPending(1)
    /\ Len(fetchCalls[1]) = 2
    /\ fetchCalls[1][1].outcome.threw
    /\ flowInput[1].docs["apiDocs"] = ""
    /\ Len(exportDetails[1]) = 2
    /\ exportDetails[1][1].status = "Failed"
    /\ exportDetails[1][2].status = "Skipped (No Content)"
    /\ flow[2] = "push"
    /\ FetchPending(2)

----------------------------------------------------------------------------
(* Properties of the edit buffer across submissions *)

\* C27: the DocumentSet never holds the text of one generation in one section
\* and the text of another generation in another section: an edit buffer that
\* was opened on the previous DocumentSet cannot be saved into the DocumentSet
\* of a newer submission.
C27_NoTextOfPreviousSubmission ==
    docs # Null =>
        \A g1 \in GenTags, g2 \in GenTags, s \in Sections, t \in Sections :
            (docs[s] = GenData(g1)[s] /\ docs[t] = GenData(g2)[t]) => g1 = g2

----------------------------------------------------------------------------
(* Properties of the mode flag *)

\* C28: whenever a DocumentSet is present, the mode flag that labels its
\* sections equals the mode stored for regeneration, which is the mode of the
\* submission that produced it; a submission that is abandoned before the
\* generation call leaves the flag as it was.
C28_ModeFlagMatchesDocumentSet ==
    docs # Null => currentUiOnlyMode = originalUiOnlyModeForRegen

----------------------------------------------------------------------------
(* Properties of an empty section *)

\* The step completes a regeneration call that was made for section f.
C29_RegenerationOfCompletes(f) ==
    \E i \in 1..Len(regenerationCalls) :
        /\ regenerationCalls[i].sectionToRegenerate = f
        /\ regenerationCalls' = Remove(regenerationCalls, i)

\* C29: while section f of the DocumentSet is the empty string, no step opens
\* an edit of f, and f gets a content again only in a step that completes a
\* regeneration of f or a full generation.
C29_EmptySectionChangesOnlyByGeneration ==
    [][\A f \in Sections :
          (docs # Null /\ docs[f] = "")
          => /\ editingSection' = f => editingSection = f
             /\ (docs' # Null /\ docs'[f] # "")
                => \/ C29_RegenerationOfCompletes(f)
                   \/ Len(generationCalls') < Len(generationCalls)]_vars

----------------------------------------------------------------------------
(* Properties of the regeneration request *)

\* C30: the request of a regeneration is determined by the stored source, the
\* target section and the tone alone: whatever the custom prompt of the dialog
\* and the mode of the session are, the request issued is the record of these
\* three values and nothing else.
C30_RequestDependsOnSourceSectionTone ==
    [][Len(regenerationCalls') > Len(regenerationCalls) =>
       \A tone \in Tones, customPrompt \in CustomPrompts :
          onRegenerateSubmit([tone |-> tone, customPrompt |-> customPrompt])
          => regenerationCalls'[Len(regenerationCalls')].request
                = [codebase |-> originalCodebaseInputForRegen,
                   sectionName |-> sectionToRegenerate,
                   tone |-> tone]]_vars

\* A regeneration of the FAQ is in flight in a session of UI-only mode.
C30_Witness ==
    /\ Len(regenerationCalls) = 1
    /\ originalUiOnlyModeForRegen
    /\ regenerationCalls[1].request.sectionName = "faq"
    /\ regenerationCalls[1].request.tone = "concise"
    /\ regenerationCalls[1].request.codebase = originalCodebaseInputForRegen

====
